---- MODULE Spec2Model ----
(***************************************************************************)
(* The two MPI launch scripts of the repository, one process per rank:     *)
(*   hyperparameter_search_option3.py  (driver = "search")                 *)
(*   TrainingDriver.py                 (driver = "train")                  *)
(* Every rank runs the same script with the same command line (SPMD), so   *)
(* the arguments and the file system are one value shared by the ranks,    *)
(* while the position in the script and the local variables are per rank.  *)
(* A collective call (Dup, Split, allgather, barrier) is two steps: the    *)
(* rank enters it, and it returns once every rank of the communicator has  *)
(* entered it.                                                             *)
(***************************************************************************)
EXTENDS Integers, Sequences, FiniteSets

\* ---------------------------------------------------------------- bounds
\* Communicator sizes explored for the search driver: 1..MaxSearchRanks.
MaxSearchRanks == 6
\* --block-size values explored: MinBlockSize..MaxBlockSize.
MaxBlockSize == 3
\* Communicator sizes explored for the training driver: 1..MaxTrainRanks.
MaxTrainRanks == 4
\* --masters values explored: 1..MaxMasters.
MaxMasters == 2

MinBlockSize == 0 - 1

VARIABLES
    driver,         \* which script the ranks run
    size,           \* comm.Get_size()
    args,           \* the parsed command line, identical on every rank
    fs,             \* the checkpoint files present, and the "latest" file
    pc,             \* pc[r]: the next statement of rank r
    exitcode,       \* exitcode[r]: Running, or the process exit status
    entered,        \* entered[c]: the ranks that have called collective c
    num_blocks,     \* search: num_blocks of rank r
    block_num,      \* search: block_num of rank r
    comm_block,     \* search: the ranks of comm_block of rank r
    all_block_nums, \* search: the list gathered by rank r
    role,           \* the Coordinator / ProcessBlock / manager role of rank r
    restore,        \* train: args.restore of rank r, as rewritten
    model_weights,  \* train: model_weights of rank r
    model_builder,  \* train: model_builder of rank r
    algo,           \* train: algo of rank r
    history         \* train: the history records written, in order

vars == <<driver, size, args, fs, pc, exitcode, entered, num_blocks, block_num,
          comm_block, all_block_nums, role, restore, model_weights,
          model_builder, algo, history>>

config == <<driver, size, args, fs>>
searchLocals == <<num_blocks, block_num, comm_block, all_block_nums>>
trainLocals == <<restore, model_weights, model_builder, algo, history>>

Ranks == 0 .. (size - 1)

\* exitcode of a rank that has not terminated
Running == 0 - 1
\* block_num / num_blocks not yet assigned
Unset == 0 - 1

\* Python's None, and a value that is not None
None == [some |-> FALSE, val |-> <<>>]
Some(v) == [some |-> TRUE, val |-> v]

NoRole == [kind |-> "none", num_blocks |-> Unset, members |-> {}]

\* ------------------------------------------------------------ collectives
Collectives == {"dup", "split", "allgather", "barrier"}

\* rank r calls collective c: it is now inside the call
EnterCollective(r, c, at, inside) ==
    /\ pc[r] = at
    /\ pc' = [pc EXCEPT ![r] = inside]
    /\ entered' = [entered EXCEPT ![c] = @ \cup {r}]

\* a collective over the world communicator returns only when all ranks called it
CollectiveComplete(c) == entered[c] = Ranks

\* an uncaught exception or sys.exit(code) ends the process of rank r
Exit(r, code) ==
    /\ pc' = [pc EXCEPT ![r] = "error"]
    /\ exitcode' = [exitcode EXCEPT ![r] = code]

\* ============================================================ search driver

\* Exit status of an uncaught Python exception, and of sys.exit(1)
ExitFailure == 1

get_block_num_nooffset(rank, block_size) ==
    IF rank = 0 THEN 0 ELSE (rank - 1) \div block_size

get_block_num(rank, block_size) ==
    IF rank = 0 THEN 0 ELSE ((rank - 1) \div block_size) + 1

check_sanity_positive(a) == a.block_size > 0

check_sanity(a) == a.block_size > 1

LeftOverFatalOnlyLarge(left_over) == left_over >= 2

\* "if left_over:" guards the sys.exit(1)
LeftOverFatal(left_over) == left_over # 0

SearchSanity(r) ==
    /\ driver = "search"
    /\ pc[r] = "sanity"
    /\ IF check_sanity(args)
       THEN /\ pc' = [pc EXCEPT ![r] = "dup"]
            /\ UNCHANGED exitcode
       ELSE Exit(r, ExitFailure)
    /\ UNCHANGED <<config, entered, searchLocals, role, trainLocals>>

SearchDupEnter(r) ==
    /\ driver = "search"
    /\ EnterCollective(r, "dup", "dup", "in_dup")
    /\ UNCHANGED <<config, exitcode, searchLocals, role, trainLocals>>

SearchDupLeave(r) ==
    /\ driver = "search"
    /\ pc[r] = "in_dup"
    /\ CollectiveComplete("dup")
    /\ pc' = [pc EXCEPT ![r] = "check"]
    /\ UNCHANGED <<config, exitcode, entered, searchLocals, role, trainLocals>>

ConsistencyCheckCoordinatorOnly(r) ==
    /\ driver = "search"
    /\ pc[r] = "check"
    /\ LET nb == (size - 1) \div args.block_size
           left_over == (size - 1) % args.block_size
       IN  IF LeftOverFatal(left_over) /\ r = 0
           THEN /\ num_blocks' = [num_blocks EXCEPT ![r] = nb + 1]
                /\ Exit(r, ExitFailure)
           ELSE /\ num_blocks' = [num_blocks EXCEPT ![r] = nb]
                /\ pc' = [pc EXCEPT ![r] = "blocknum"]
                /\ UNCHANGED exitcode
    /\ UNCHANGED <<config, entered, block_num, comm_block, all_block_nums,
                   role, trainLocals>>

ConsistencyCheck(r) ==
    /\ driver = "search"
    /\ pc[r] = "check"
    /\ LET nb == (size - 1) \div args.block_size
           left_over == (size - 1) % args.block_size
       IN  IF LeftOverFatal(left_over)
           THEN /\ num_blocks' = [num_blocks EXCEPT ![r] = nb + 1]
                /\ Exit(r, ExitFailure)
           ELSE /\ num_blocks' = [num_blocks EXCEPT ![r] = nb]
                /\ pc' = [pc EXCEPT ![r] = "blocknum"]
                /\ UNCHANGED exitcode
    /\ UNCHANGED <<config, entered, block_num, comm_block, all_block_nums,
                   role, trainLocals>>

GetBlockNum(r) ==
    /\ driver = "search"
    /\ pc[r] = "blocknum"
    /\ block_num' = [block_num EXCEPT ![r] = get_block_num(r, args.block_size)]
    /\ pc' = [pc EXCEPT ![r] = "split"]
    /\ UNCHANGED <<config, exitcode, entered, num_blocks, comm_block,
                   all_block_nums, role, trainLocals>>

SplitEnter(r) ==
    /\ driver = "search"
    /\ EnterCollective(r, "split", "split", "in_split")
    /\ UNCHANGED <<config, exitcode, searchLocals, role, trainLocals>>

\* Split(color): the new communicator holds the ranks that passed the same color
SplitLeave(r) ==
    /\ driver = "search"
    /\ pc[r] = "in_split"
    /\ CollectiveComplete("split")
    /\ comm_block' = [comm_block EXCEPT
                        ![r] = {s \in Ranks : block_num[s] = block_num[r]}]
    /\ pc' = [pc EXCEPT ![r] = "allgather"]
    /\ UNCHANGED <<config, exitcode, entered, num_blocks, block_num,
                   all_block_nums, role, trainLocals>>

AllgatherEnter(r) ==
    /\ driver = "search"
    /\ EnterCollective(r, "allgather", "allgather", "in_allgather")
    /\ UNCHANGED <<config, exitcode, searchLocals, role, trainLocals>>

AllgatherLeave(r) ==
    /\ driver = "search"
    /\ pc[r] = "in_allgather"
    /\ CollectiveComplete("allgather")
    /\ all_block_nums' = [all_block_nums EXCEPT
                            ![r] = [i \in 1 .. size |-> block_num[i - 1]]]
    /\ pc' = [pc EXCEPT ![r] = "role"]
    /\ UNCHANGED <<config, exitcode, entered, num_blocks, block_num,
                   comm_block, role, trainLocals>>

CreateCoordinator(r) ==
    /\ driver = "search"
    /\ pc[r] = "role"
    /\ block_num[r] = 0
    /\ role' = [role EXCEPT ![r] = [kind |-> "coordinator",
                                    num_blocks |-> num_blocks[r],
                                    members |-> Ranks]]
    /\ pc' = [pc EXCEPT ![r] = "run"]
    /\ UNCHANGED <<config, exitcode, entered, searchLocals, trainLocals>>

CreateProcessBlock(r) ==
    /\ driver = "search"
    /\ pc[r] = "role"
    /\ block_num[r] # 0
    /\ role' = [role EXCEPT ![r] = [kind |-> "block",
                                    num_blocks |-> Unset,
                                    members |-> comm_block[r]]]
    /\ pc' = [pc EXCEPT ![r] = "run"]
    /\ UNCHANGED <<config, exitcode, entered, searchLocals, trainLocals>>

\* Coordinator.run / ProcessBlock.run: the trials, then the shutdown barrier
\* over the world communicator
RunToBarrier(r) ==
    /\ driver = "search"
    /\ EnterCollective(r, "barrier", "run", "in_barrier")
    /\ UNCHANGED <<config, exitcode, searchLocals, role, trainLocals>>

\* run() returns and the script ends: exit status 0
RunReturn(r) ==
    /\ driver = "search"
    /\ pc[r] = "in_barrier"
    /\ CollectiveComplete("barrier")
    /\ pc' = [pc EXCEPT ![r] = "done"]
    /\ exitcode' = [exitcode EXCEPT ![r] = 0]
    /\ UNCHANGED <<config, entered, searchLocals, role, trainLocals>>

\* ========================================================== training driver

\* Exit status of argparse's parser.error()
ExitUsage == 2

ModeChoicesUnchecked == {"sgd", "easgd", "gem", "adam"}

\* choices= of --mode
ModeChoices == {"sgd", "easgd", "gem"}

\* a_backend: a model name that contains 'torch' selects the torch backend
a_backend(a) == IF a.model.torch THEN "torch" ELSE a.backend

use_torch(a) == a_backend(a) # "keras"

\* Python truth value of args.restore: not None and not ''
Truthy(p) == p.some /\ p.val # <<>>

\* A path is the sequence of the pieces it is concatenated from.
isfile(p) == p \in fs.files

\* re.sub(r'\.algo$', '', path)
StripAlgo(p) ==
    IF Len(p) > 0 /\ p[Len(p)] = ".algo" THEN SubSeq(p, 1, Len(p) - 1) ELSE p

\* args.restore after lines 124-127; the caller handles the empty latest file
ResolveRestore(p) ==
    LET base == StripAlgo(p)
    IN  IF isfile(base \o <<".latest">>) THEN fs.latest[Len(fs.latest)] ELSE base

LatestIsEmpty(p) ==
    isfile(StripAlgo(p) \o <<".latest">>) /\ fs.latest = <<>>

\* model_weights after lines 128-129 (before the '_w' suffix is added)
WeightsOf(a, resolved) ==
    IF use_torch(a) /\ isfile(resolved \o <<".model">>)
    THEN Some(resolved \o <<".model">>) ELSE None

\* argparse: a --mode outside choices is a usage error
TrainParse(r) ==
    /\ driver = "train"
    /\ pc[r] = "parse"
    /\ IF args.mode \in ModeChoices
       THEN /\ pc' = [pc EXCEPT ![r] = "dup"]
            /\ UNCHANGED exitcode
       ELSE Exit(r, ExitUsage)
    /\ UNCHANGED <<config, entered, searchLocals, role, trainLocals>>

TrainDupEnter(r) ==
    /\ driver = "train"
    /\ EnterCollective(r, "dup", "dup", "in_dup")
    /\ UNCHANGED <<config, exitcode, searchLocals, role, trainLocals>>

TrainDupLeave(r) ==
    /\ driver = "train"
    /\ pc[r] = "in_dup"
    /\ CollectiveComplete("dup")
    /\ pc' = [pc EXCEPT ![r] = "restore"]
    /\ UNCHANGED <<config, exitcode, entered, searchLocals, role, trainLocals>>

\* lines 119-131
TrainRestore(r) ==
    /\ driver = "train"
    /\ pc[r] = "restore"
    /\ IF ~Truthy(args.restore)
       THEN /\ restore' = [restore EXCEPT ![r] = args.restore]
            /\ model_weights' = [model_weights EXCEPT ![r] = None]
            /\ pc' = [pc EXCEPT ![r] = "builder"]
            /\ UNCHANGED exitcode
       ELSE IF LatestIsEmpty(args.restore.val)
       THEN \* splitlines()[-1] of an empty file: IndexError
            /\ restore' = [restore EXCEPT ![r] = Some(StripAlgo(args.restore.val))]
            /\ Exit(r, ExitFailure)
            /\ UNCHANGED model_weights
       ELSE LET resolved == ResolveRestore(args.restore.val)
                w == WeightsOf(args, resolved)
            IN  /\ restore' = [restore EXCEPT ![r] = Some(resolved)]
                /\ IF use_torch(args) /\ ~w.some
                   THEN \* None += '_w': TypeError
                        /\ model_weights' = [model_weights EXCEPT ![r] = w]
                        /\ Exit(r, ExitFailure)
                   ELSE /\ model_weights' = [model_weights EXCEPT ![r] =
                               IF use_torch(args) THEN Some(w.val \o <<"_w">>) ELSE w]
                        /\ pc' = [pc EXCEPT ![r] = "builder"]
                        /\ UNCHANGED exitcode
    /\ UNCHANGED <<config, entered, searchLocals, role, model_builder, algo, history>>

\* lines 135-183: the name hasttar is not defined, so probing a module raises
\* NameError; "m_module and ..." does not evaluate it when there is no module
TrainBuilder(r) ==
    /\ driver = "train"
    /\ pc[r] = "builder"
    /\ IF args.model.py
       THEN /\ Exit(r, ExitFailure)
            /\ UNCHANGED model_builder
       ELSE /\ model_builder' = [model_builder EXCEPT ![r] =
                   Some([kind |-> IF use_torch(args) THEN "ModelPytorch"
                                  ELSE "ModelTensorFlow",
                         weights |-> model_weights[r]])]
            /\ pc' = [pc EXCEPT ![r] = "algo"]
            /\ UNCHANGED exitcode
    /\ UNCHANGED <<config, entered, searchLocals, role, restore, model_weights,
                   algo, history>>

NoForce == [num |-> 0, den |-> 1]

\* elastic_force=args.elastic_force/(comm.Get_size()-1), as an exact fraction
ElasticForce(a, n) ==
    [num |-> a.elastic_force.num, den |-> a.elastic_force.den * (n - 1)]

\* lines 189-218
TrainAlgo(r) ==
    /\ driver = "train"
    /\ pc[r] = "algo"
    /\ IF args.mode = "easgd"
       THEN IF size - 1 = 0
            THEN \* ZeroDivisionError
                 /\ Exit(r, ExitFailure)
                 /\ UNCHANGED algo
            ELSE /\ algo' = [algo EXCEPT ![r] =
                        Some([mode |-> "easgd",
                              elastic_force |-> ElasticForce(args, size),
                              loaded |-> None])]
                 /\ pc' = [pc EXCEPT ![r] = "load"]
                 /\ UNCHANGED exitcode
       ELSE IF args.mode \in {"gem", "sgd"}
       THEN /\ algo' = [algo EXCEPT ![r] =
                   Some([mode |-> args.mode, elastic_force |-> NoForce,
                         loaded |-> None])]
            /\ pc' = [pc EXCEPT ![r] = "load"]
            /\ UNCHANGED exitcode
       ELSE \* logging.info only: algo stays unbound
            /\ pc' = [pc EXCEPT ![r] = "load"]
            /\ UNCHANGED <<algo, exitcode>>
    /\ UNCHANGED <<config, entered, searchLocals, role, restore, model_weights,
                   model_builder, history>>

\* Algo.load(path): a missing or unreadable algorithm snapshot is a RestoreError
AlgoLoadFails(path) == ~isfile(path \o <<".algo">>)

\* lines 220-221
TrainAlgoLoad(r) ==
    /\ driver = "train"
    /\ pc[r] = "load"
    /\ IF ~Truthy(restore[r])
       THEN /\ pc' = [pc EXCEPT ![r] = "manager"]
            /\ UNCHANGED <<algo, exitcode>>
       ELSE IF ~algo[r].some \/ AlgoLoadFails(restore[r].val)
       THEN \* NameError on the unbound algo, or the load raises
            /\ Exit(r, ExitFailure)
            /\ UNCHANGED algo
       ELSE /\ algo' = [algo EXCEPT ![r] =
                   Some([algo[r].val EXCEPT !.loaded = Some(restore[r].val)])]
            /\ pc' = [pc EXCEPT ![r] = "manager"]
            /\ UNCHANGED exitcode
    /\ UNCHANGED <<config, entered, searchLocals, role, restore, model_weights,
                   model_builder, history>>

\* ProcessTopology: N == M*(W+1), at least one worker per master
ValidTopology(n, m) == m >= 1 /\ n % m = 0 /\ n \div m >= 2

\* every group is one Master followed by its Workers
RoleOf(rank, n, m) ==
    [kind |-> IF rank % (n \div m) = 0 THEN "master" ELSE "worker",
     num_blocks |-> Unset,
     members |-> {s \in 0 .. (n - 1) : s \div (n \div m) = rank \div (n \div m)}]

LaunchesTrainingOnEveryRank(r) == TRUE

\* "if comm.Get_rank() == 0:"
LaunchesTraining(r) == r = 0

\* line 224-236: MPIManager(...); a master or worker other than rank 0 trains
\* inside the constructor, rank 0 goes on to launch the training itself
TrainManager(r) ==
    /\ driver = "train"
    /\ pc[r] = "manager"
    /\ IF ~algo[r].some \/ ~ValidTopology(size, args.masters)
       THEN \* NameError on the unbound algo, or ConfigurationError
            /\ Exit(r, ExitFailure)
            /\ UNCHANGED role
       ELSE /\ role' = [role EXCEPT ![r] = RoleOf(r, size, args.masters)]
            /\ pc' = [pc EXCEPT ![r] = IF LaunchesTraining(r) THEN "train"
                                        ELSE "barrier"]
            /\ UNCHANGED exitcode
    /\ UNCHANGED <<config, entered, searchLocals, trainLocals>>

\* lines 239-241
TrainLaunch(r) ==
    /\ driver = "train"
    /\ pc[r] = "train"
    /\ pc' = [pc EXCEPT ![r] = "free"]
    /\ UNCHANGED <<config, exitcode, entered, searchLocals, role, trainLocals>>

\* lines 242-243
TrainFreeComms(r) ==
    /\ driver = "train"
    /\ pc[r] = "free"
    /\ pc' = [pc EXCEPT ![r] = "record"]
    /\ UNCHANGED <<config, exitcode, entered, searchLocals, role, trainLocals>>

json_name(a) == <<a.model.name, a.trial_name, "history.json">>

\* lines 245-257
TrainRecord(r) ==
    /\ driver = "train"
    /\ pc[r] = "record"
    /\ history' = Append(history, [name |-> json_name(args), rank |-> r])
    /\ pc' = [pc EXCEPT ![r] = "barrier"]
    /\ UNCHANGED <<config, exitcode, entered, searchLocals, role, restore,
                   model_weights, model_builder, algo>>

TrainBarrierEnter(r) ==
    /\ driver = "train"
    /\ EnterCollective(r, "barrier", "barrier", "in_barrier")
    /\ UNCHANGED <<config, exitcode, searchLocals, role, trainLocals>>

BarrierReturnsAtOnce(c) == TRUE

\* comm.barrier() returns when every rank of comm has called it
BarrierReturns(c) == CollectiveComplete(c)

\* lines 259-261, and the end of the script: exit status 0
TrainBarrierLeave(r) ==
    /\ driver = "train"
    /\ pc[r] = "in_barrier"
    /\ BarrierReturns("barrier")
    /\ pc' = [pc EXCEPT ![r] = "done"]
    /\ exitcode' = [exitcode EXCEPT ![r] = 0]
    /\ UNCHANGED <<config, entered, searchLocals, role, trainLocals>>

\* ---------------------------------------------------------- initial states
SearchArgs == [block_size : MinBlockSize .. MaxBlockSize]

\* --elastic-force values, as exact fractions (0.9 is the default)
ElasticForces == {[num |-> 9, den |-> 10], [num |-> 1, den |-> 2]}

\* --model: a serialized architecture or a .py module
Models == {[name |-> "mnist", py |-> FALSE, torch |-> FALSE],
           [name |-> "mnist_arch", py |-> TRUE, torch |-> FALSE],
           [name |-> "mnist_torch", py |-> TRUE, torch |-> TRUE]}

\* --restore: absent, a checkpoint base name, or the name of its .algo file
Restores == {None, Some(<<"ck">>), Some(<<"ck", ".algo">>)}

\* "adam" stands for any string that is not a synchronization mode.
\* The restore options are explored against the default --mode and --masters,
\* and the modes and topologies without --restore: lines 119-131 and 220-221
\* read neither option.
TrainArgs ==
    {a \in [mode : {"sgd", "easgd", "gem", "adam"},
            backend : {"keras", "torch"},
            model : Models,
            trial_name : {"train"},
            restore : Restores,
            masters : 1 .. MaxMasters,
            elastic_force : ElasticForces] :
        \* --elastic-force is read in easgd mode only
        /\ a.mode # "easgd" => a.elastic_force = [num |-> 9, den |-> 10]
        /\ a.restore.some => a.mode = "sgd" /\ a.masters = 1}

\* The two snapshots of checkpoint id, each of which may be missing
Snapshots(id) == SUBSET {id \o <<".model">>, id \o <<".algo">>}

\* The checkpoint files on disk. Without ck.latest the checkpoint is "ck";
\* with it, "ck-1" is an older checkpoint and "ck-2" the newest one, which
\* the last line of ck.latest names; ck.latest may also be empty.
FileSystems ==
    {[files |-> f, latest |-> <<>>] : f \in Snapshots(<<"ck">>)}
    \cup {[files |-> {<<"ck", ".latest">>}, latest |-> <<>>]}
    \cup {[files |-> {<<"ck", ".latest">>, <<"ck-1", ".model">>,
                      <<"ck-1", ".algo">>} \cup f,
           latest |-> <<<<"ck-1">>, <<"ck-2">>>>] : f \in Snapshots(<<"ck-2">>)}

NoFiles == [files |-> {}, latest |-> <<>>]

InitLocals ==
    /\ exitcode = [r \in Ranks |-> Running]
    /\ entered = [c \in Collectives |-> {}]
    /\ num_blocks = [r \in Ranks |-> Unset]
    /\ block_num = [r \in Ranks |-> Unset]
    /\ comm_block = [r \in Ranks |-> {}]
    /\ all_block_nums = [r \in Ranks |-> <<>>]
    /\ role = [r \in Ranks |-> NoRole]
    /\ restore = [r \in Ranks |-> None]
    /\ model_weights = [r \in Ranks |-> None]
    /\ model_builder = [r \in Ranks |-> None]
    /\ algo = [r \in Ranks |-> None]
    /\ history = <<>>

InitSearch ==
    /\ driver = "search"
    /\ size \in 1 .. MaxSearchRanks
    /\ args \in SearchArgs
    /\ fs = NoFiles
    /\ pc = [r \in Ranks |-> "sanity"]
    /\ InitLocals

InitTrain ==
    /\ driver = "train"
    /\ size \in 1 .. MaxTrainRanks
    /\ args \in TrainArgs
    /\ fs \in (IF args.restore.some THEN FileSystems ELSE {NoFiles})
    /\ pc = [r \in Ranks |-> "parse"]
    /\ InitLocals

Init == InitSearch \/ InitTrain

\* every rank number a communicator of the explored sizes can hold
AllRanks ==
    0 .. ((IF MaxSearchRanks > MaxTrainRanks THEN MaxSearchRanks
           ELSE MaxTrainRanks) - 1)

Next ==
    \/ \E r \in AllRanks : r \in Ranks /\ SearchSanity(r)
    \/ \E r \in AllRanks : r \in Ranks /\ SearchDupEnter(r)
    \/ \E r \in AllRanks : r \in Ranks /\ SearchDupLeave(r)
    \/ \E r \in AllRanks : r \in Ranks /\ ConsistencyCheck(r)
    \/ \E r \in AllRanks : r \in Ranks /\ GetBlockNum(r)
    \/ \E r \in AllRanks : r \in Ranks /\ SplitEnter(r)
    \/ \E r \in AllRanks : r \in Ranks /\ SplitLeave(r)
    \/ \E r \in AllRanks : r \in Ranks /\ AllgatherEnter(r)
    \/ \E r \in AllRanks : r \in Ranks /\ AllgatherLeave(r)
    \/ \E r \in AllRanks : r \in Ranks /\ CreateCoordinator(r)
    \/ \E r \in AllRanks : r \in Ranks /\ CreateProcessBlock(r)
    \/ \E r \in AllRanks : r \in Ranks /\ RunToBarrier(r)
    \/ \E r \in AllRanks : r \in Ranks /\ RunReturn(r)
    \/ \E r \in AllRanks : r \in Ranks /\ TrainParse(r)
    \/ \E r \in AllRanks : r \in Ranks /\ TrainDupEnter(r)
    \/ \E r \in AllRanks : r \in Ranks /\ TrainDupLeave(r)
    \/ \E r \in AllRanks : r \in Ranks /\ TrainRestore(r)
    \/ \E r \in AllRanks : r \in Ranks /\ TrainBuilder(r)
    \/ \E r \in AllRanks : r \in Ranks /\ TrainAlgo(r)
    \/ \E r \in AllRanks : r \in Ranks /\ TrainAlgoLoad(r)
    \/ \E r \in AllRanks : r \in Ranks /\ TrainManager(r)
    \/ \E r \in AllRanks : r \in Ranks /\ TrainLaunch(r)
    \/ \E r \in AllRanks : r \in Ranks /\ TrainFreeComms(r)
    \/ \E r \in AllRanks : r \in Ranks /\ TrainRecord(r)
    \/ \E r \in AllRanks : r \in Ranks /\ TrainBarrierEnter(r)
    \/ \E r \in AllRanks : r \in Ranks /\ TrainBarrierLeave(r)

Spec == Init /\ [][Next]_vars

\* ================================================================= claims

SeqPrefix(p, q) == Len(p) <= Len(q) /\ SubSeq(q, 1, Len(p)) = p

Exited(r) == exitcode[r] # Running

\* the pc of a rank that is inside collective c
Inside(c) ==
    CASE c = "dup" -> "in_dup"
      [] c = "split" -> "in_split"
      [] c = "allgather" -> "in_allgather"
      [] c = "barrier" -> "in_barrier"

\* the positions of the search driver up to and including its consistency check
BeforeSplit == {"sanity", "dup", "in_dup", "check", "error"}

\* the leftover of the non-coordinator ranks, for a block size of at least 2
LeftOver == (size - 1) % args.block_size

C2_BlockSizeRejected ==
    (driver = "search" /\ args.block_size <= 1) =>
        \A r \in Ranks :
            /\ pc[r] \in {"sanity", "error"}
            /\ pc[r] = "error" <=> Exited(r)
            /\ exitcode[r] # 0
            /\ \A c \in Collectives : r \notin entered[c]
            /\ role[r] = NoRole

\* C2 witness: block_size = 1 on three ranks or more, all of them ended in the error.
C2_Witness ==
    /\ driver = "search" /\ args.block_size = 1 /\ size >= 3
    /\ \A r \in Ranks : pc[r] = "error" /\ exitcode[r] = ExitFailure

\* C3: in the search driver, when the size-1 non-coordinator ranks leave a
\* leftover of one rank, no rank gets past the consistency check: a rank that
\* has terminated has a nonzero exit status, no rank enters Split, allgather
\* or a barrier, none has a block number or a role, and a rank terminates only
\* after it has entered Dup, so that no rank waits in Dup for it.
C3_SmallLeftoverFatal ==
    (driver = "search" /\ args.block_size >= 2 /\ LeftOver # 0 /\ LeftOver < 2) =>
        /\ \A r \in Ranks :
              /\ pc[r] \in BeforeSplit
              /\ pc[r] = "error" <=> Exited(r)
              /\ exitcode[r] # 0
              /\ block_num[r] = Unset
              /\ role[r] = NoRole
              /\ Exited(r) /\ args.block_size >= 2 => r \in entered["dup"]
        /\ \A c \in {"split", "allgather", "barrier"} : entered[c] = {}

\* C3 witness: four ranks, block size 2 (one full block and one rank left
\* over), every rank terminated with status 1 after the Dup.
C3_Witness ==
    /\ driver = "search" /\ size = 4 /\ args.block_size = 2
    /\ entered["dup"] = Ranks
    /\ \A r \in Ranks : exitcode[r] = ExitFailure

\* a fatal configuration error of the search driver
ConfigError ==
    /\ driver = "search"
    /\ args.block_size <= 1 \/ LeftOver # 0

\* C4: when the search driver detects a fatal configuration error, all ranks
\* take the same exit decision before Split and allgather: once a rank has
\* exited with the error no rank is past the consistency check, and no rank is
\* inside a collective that a terminated rank has not entered.
C4_CoordinatedShutdown ==
    ConfigError =>
        /\ \A r, s \in Ranks : pc[r] = "error" => pc[s] \in BeforeSplit
        /\ \A c \in Collectives : \A r, s \in Ranks :
              (pc[r] = Inside(c) /\ Exited(s)) => s \in entered[c]

\* C4 witness: an uneven partition on three ranks or more, one rank already
\* exited with the error while another is still at the consistency check.
C4_Witness ==
    /\ ConfigError /\ size >= 3
    /\ \E r, s \in Ranks :
          pc[r] = "error" /\ exitcode[r] = ExitFailure /\ pc[s] = "check"

FracAdd(a, b) == [num |-> a.num * b.den + b.num * a.den, den |-> a.den * b.den]
FracEq(a, b) == a.num * b.den = b.num * a.den

RECURSIVE FracSum(_, _)
FracSum(f, S) ==
    IF S = {} THEN [num |-> 0, den |-> 1]
    ELSE LET x == CHOOSE x \in S : TRUE
         IN  FracAdd(f[x], FracSum(f, S \ {x}))

Workers == {r \in Ranks : role[r].kind = "worker"}

\* C6: in EASGD mode, once every rank has its role, the elastic forces handed
\* to the protocol on the worker ranks sum to the configured elastic_force,
\* for every topology.
C6_ElasticForceSum ==
    (driver = "train" /\ args.mode = "easgd"
       /\ \A r \in Ranks : role[r].kind # "none") =>
        FracEq(FracSum([r \in Ranks |-> algo[r].val.elastic_force], Workers),
               args.elastic_force)

\* the checkpoint identity --restore resolves to: the name without a trailing
\* .algo, or the last line of <name>.latest when that file exists
CheckpointIdentity ==
    LET base == IF args.restore.val[Len(args.restore.val)] = ".algo"
                THEN SubSeq(args.restore.val, 1, Len(args.restore.val) - 1)
                ELSE args.restore.val
    IN  IF (base \o <<".latest">>) \in fs.files /\ fs.latest # <<>>
        THEN fs.latest[Len(fs.latest)] ELSE base

\* a snapshot of the resolved checkpoint is missing, or ck.latest is empty
CheckpointMissing ==
    /\ args.restore.some
    /\ \/ LatestIsEmpty(args.restore.val)
       \/ (CheckpointIdentity \o <<".model">>) \notin fs.files
       \/ (CheckpointIdentity \o <<".algo">>) \notin fs.files

\* C7: given --restore of a complete checkpoint, a rank that got as far as its
\* manager has loaded both
\* snapshots of the one resolved checkpoint: the weights handed to the model
\* backend are a file of that checkpoint, and algo.load was given it, for the
\* keras backend as for the torch backend.
C7_RestoreLoadsBoth ==
    (driver = "train" /\ args.restore.some /\ ~CheckpointMissing) =>
        \A r \in Ranks : role[r].kind # "none" =>
            /\ model_builder[r].val.weights.some
            /\ SeqPrefix(CheckpointIdentity, model_builder[r].val.weights.val)
            /\ algo[r].val.loaded = Some(CheckpointIdentity)

\* C8: when --restore resolves to a checkpoint that is missing, no rank
\* creates its manager: none gets a role and goes on to train on a model
\* backend built with weights = None.
C8_MissingCheckpointAborts ==
    (driver = "train" /\ CheckpointMissing) =>
        \A r \in Ranks : role[r].kind = "none"

\* C9: a --mode other than sgd, easgd or gem ends the run at the argument
\* parser, on every rank, with the usage error: the rank never duplicates the
\* communicator, binds no algo and constructs no manager, so it has no role
\* and takes no training step.
C9_UnknownModeFatal ==
    (driver = "train" /\ args.mode \notin {"sgd", "easgd", "gem"}) =>
        \A r \in Ranks :
            /\ pc[r] \in {"parse", "error"}
            /\ pc[r] = "error" <=> exitcode[r] = ExitUsage
            /\ exitcode[r] # 0
            /\ \A c \in Collectives : r \notin entered[c]
            /\ ~algo[r].some
            /\ role[r] = NoRole

\* C9 witness: an unrecognized mode on two ranks or more, all ended in the usage error.
C9_Witness ==
    /\ driver = "train" /\ args.mode = "adam" /\ size >= 2
    /\ \A r \in Ranks : pc[r] = "error" /\ exitcode[r] = ExitUsage

\* C10: in the search driver, with a leftover of 2 ranks or more, start-up is
\* not aborted: no rank exits with an error, and num_blocks counts the smaller
\* last block.
C10_LargeLeftoverContinues ==
    (driver = "search" /\ args.block_size >= 2 /\ LeftOver >= 2) =>
        \A r \in Ranks :
            /\ pc[r] # "error"
            /\ num_blocks[r] # Unset =>
                  num_blocks[r] = ((size - 1) \div args.block_size) + 1

\* C11: in the training driver, run with a recognized mode and without
\* --restore, every rank reaches the data and algorithm set-up with
\* model_builder defined, whether the model is a .py module or a serialized
\* architecture and whichever the backend: no rank ends in an error before
\* its model_builder is bound, and a bound model_builder of a run without a
\* module is the default backend of a_backend.
C11_ModelBuilderDefined ==
    (driver = "train" /\ args.mode \in {"sgd", "easgd", "gem"}
       /\ ~args.restore.some) =>
        \A r \in Ranks :
            /\ pc[r] = "error" => model_builder[r].some
            /\ (model_builder[r].some /\ ~args.model.py) =>
                  model_builder[r].val.kind =
                      IF a_backend(args) = "keras" THEN "ModelTensorFlow"
                      ELSE "ModelPytorch"

\* C12: in the training driver only rank 0 launches the training and writes
\* the history record, named <model>_<trial_name>_history.json, and writes it
\* once: not before train has returned and the communicators are freed, and
\* before rank 0 enters the final barrier; so no rank passes the final barrier
\* before the record is written.
C12_HistoryWrittenOnce ==
    driver = "train" =>
        /\ \A r \in Ranks : pc[r] \in {"train", "free", "record"} => r = 0
        /\ Len(history) <= 1
        /\ \A i \in 1 .. Len(history) :
              /\ history[i].rank = 0
              /\ history[i].name = <<args.model.name, args.trial_name, "history.json">>
        /\ \A r \in Ranks :
              /\ pc[r] \in {"train", "free", "record"} => history = <<>>
              /\ (r = 0 /\ 0 \in entered["barrier"]) => Len(history) = 1
              /\ pc[r] = "done" => Len(history) = 1

\* C12 witness: a run on three ranks or more that has ended, every rank with
\* status 0, with the one record written by rank 0.
C12_Witness ==
    /\ driver = "train" /\ size >= 3
    /\ \A r \in Ranks : pc[r] = "done" /\ exitcode[r] = 0
    /\ Len(history) = 1 /\ history[1].rank = 0
====
